---- MODULE Spec2Model ----
(***************************************************************************)
(* Model of corella_lib/serial.py: the Corella AT-command driver.          *)
(*                                                                         *)
(* Text (str and bytes alike) is a sequence of one-character strings, so   *)
(* that formatting, padding, truncation, stripping and splitting are       *)
(* computed character by character as the Python code computes them.       *)
(*                                                                         *)
(* The serial transport is the environment: `rx` is the sequence of raw    *)
(* lines the device has emitted and the driver has not read yet;           *)
(* readline() on an empty `rx` is a read timeout and yields b''.           *)
(*                                                                         *)
(* The driver is one sequential caller: `pc` is its position, `stack` the  *)
(* active request() frames (send's request, and the status request nested  *)
(* in it by _wait_throttle).  `log` records, for the operation in progress *)
(* (or the last one finished), every call made on the transport and every  *)
(* time.sleep, in order.                                                   *)
(***************************************************************************)
EXTENDS Integers, Sequences, FiniteSets, TLC

VARIABLES
    is_open,            \* self._serial.is_open
    handle_throttling,  \* self.handle_throttling
    rx,                 \* raw lines pending in the transport
    emitted,            \* lines available to the operation: pending at its call, or emitted since
    pc,                 \* position of the caller
    op,                 \* the public operation in progress / last called
    stack,              \* request() frames: [command, throttle]
    lines,              \* _readlines: lines
    response,           \* value returned by the last request() that returned
    result,             \* outcome of the last public operation
    warning,            \* _pack_data: warning_message chosen ("none" if none)
    log                 \* transport calls and sleeps of the operation

vars == <<is_open, handle_throttling, rx, emitted, pc, op, stack, lines,
          response, result, warning, log>>

---------------------------------------------------------------------------
(* Bounds of the model *)

\* lines the device makes available to one operation
MaxEmit == 3

MaxDataLen == 13

---------------------------------------------------------------------------
(* Class constants *)

COMMAND_AT == <<"A","T">>

COMMAND_AT_DIAGNOSTICS == <<"A","T","+","D","I","A","G","N","O","S","T","I","C","S","?">>

COMMAND_AT_ID == <<"A","T","+","I","D","?">>

COMMAND_AT_STATUS == <<"A","T","+","S","T","A","T","U","S","?">>

COMMAND_AT_VERSION == <<"A","T","+","V","E","R","S","I","O","N","?">>

DATA_SIZE == 12

RESPONSE_OK == <<"O","K">>

STATE_LEDS_OFF == <<"O","F","F">>

STATE_LEDS_ON == <<"O","N">>

---------------------------------------------------------------------------
(* Text helpers: what the Python built-ins used by the driver compute *)

Digits == <<"0","1","2","3","4","5","6","7","8","9">>

DigitSet == {Digits[i] : i \in 1..10}

DigitValue(c) == CHOOSE d \in 0..9 : Digits[d + 1] = c

RECURSIVE str(_)
\* '{}'.format(n) of a non-negative int: its decimal digits
str(n) == IF n < 10 THEN <<Digits[n + 1]>>
          ELSE str(n \div 10) \o <<Digits[(n % 10) + 1]>>

\* the characters str.strip() and str.split() treat as whitespace
IsSpace(c) == c \in {" ", "\t", "\r", "\n"}

RECURSIVE lstrip(_)
lstrip(s) == IF s # <<>> /\ IsSpace(Head(s)) THEN lstrip(Tail(s)) ELSE s

RECURSIVE rstrip(_)
rstrip(s) == IF s # <<>> /\ IsSpace(s[Len(s)])
             THEN rstrip(SubSeq(s, 1, Len(s) - 1)) ELSE s

\* as strip, removing trailing whitespace only
strip_trailing(s) == rstrip(s)

\* str.strip(): whitespace removed from both ends
strip(s) == rstrip(lstrip(s))

RECURSIVE token_len(_)
\* number of leading non-whitespace characters
token_len(s) == IF s = <<>> \/ IsSpace(Head(s)) THEN 0
                ELSE 1 + token_len(Tail(s))

\* str.split(): the maximal runs of non-whitespace characters
split(s) ==
    LET tokens[r \in Seq(STRING)] ==
            LET t == lstrip(r) IN
            IF t = <<>> THEN <<>>
            ELSE LET n == token_len(t) IN
                 <<SubSeq(t, 1, n)>> \o tokens[SubSeq(t, n + 1, Len(t))]
    IN  tokens[s]

\* the digits of an int() literal, its sign removed
int_digits(tok) == IF tok # <<>> /\ Head(tok) \in {"+", "-"}
                   THEN Tail(tok) ELSE tok

\* whether int(tok) succeeds: an optional sign and at least one digit
is_int(tok) == /\ int_digits(tok) # <<>>
               /\ \A i \in 1..Len(int_digits(tok)) : int_digits(tok)[i] \in DigitSet

RECURSIVE nat_value(_)
nat_value(ds) == IF ds = <<>> THEN 0
                 ELSE 10 * nat_value(SubSeq(ds, 1, Len(ds) - 1))
                      + DigitValue(ds[Len(ds)])

\* int(tok), for a tok that is_int
int(tok) == IF Head(tok) = "-" THEN 0 - nat_value(int_digits(tok))
            ELSE nat_value(int_digits(tok))

\* n space characters
spaces(n) == [i \in 1..n |-> " "]

---------------------------------------------------------------------------
(* Pure functions of the driver *)

\* encode_command: the command followed by CR LF
encode_command(command) == command \o <<"\r", "\n">>

\* COMMAND_AT_SEND.format(packet_id=..., data=...)
COMMAND_AT_SEND(packet_id, data) ==
    <<"A","T","+","S","E","N","D","=">> \o str(packet_id) \o <<",">> \o data

\* COMMAND_AT_LEDS.format(state=...)
COMMAND_AT_LEDS(state) == <<"A","T","+","L","E","D","S","=">> \o state

\* as pack_data, with the width and no precision: nothing is cut
pack_data_uncut(data) == data \o spaces(DATA_SIZE - Len(data))

\* as pack_data, filling with zeros
pack_data_zero_fill(data) ==
    LET cut == IF Len(data) > DATA_SIZE THEN SubSeq(data, 1, DATA_SIZE) ELSE data
    IN  cut \o [i \in 1..(DATA_SIZE - Len(cut)) |-> "0"]

\* '{:12.12}'.format(data): precision cuts to DATA_SIZE characters, then the
\* width pads on the right with spaces up to DATA_SIZE
pack_data(data) ==
    LET cut == IF Len(data) > DATA_SIZE THEN SubSeq(data, 1, DATA_SIZE) ELSE data
    IN  cut \o spaces(DATA_SIZE - Len(cut))

\* as warning_message, with the two length comparisons exchanged
warning_message_swapped(data, packed_data) ==
    IF packed_data # data
    THEN IF Len(packed_data) < Len(data) THEN "padded"
         ELSE IF Len(packed_data) > Len(data) THEN "truncated"
         ELSE "forced"
    ELSE "none"

\* _pack_data: the warning_message branch taken for data and its packed form
warning_message(data, packed_data) ==
    IF packed_data # data
    THEN IF Len(packed_data) > Len(data) THEN "padded"
         ELSE IF Len(packed_data) < Len(data) THEN "truncated"
         ELSE "forced"
    ELSE "none"

\* as wait_throttle_outcome, sleeping the seconds named and not one more
wait_throttle_outcome_exact(status) ==
    IF status = <<>> THEN [kind |-> "return", secs |-> 0]
    ELSE LET line == status[Len(status)]
             toks == split(line)
         IN  IF line = RESPONSE_OK THEN [kind |-> "return", secs |-> 0]
             ELSE IF Len(toks) # 3 THEN [kind |-> "ValueError", secs |-> 0]
             ELSE IF ~is_int(toks[2]) THEN [kind |-> "ValueError", secs |-> 0]
             ELSE IF int(toks[2]) < 0 THEN [kind |-> "ValueError", secs |-> 0]
             ELSE [kind |-> "sleep", secs |-> int(toks[2])]

\* as wait_throttle_outcome, taking a line it cannot parse as no throttling
wait_throttle_outcome_lenient(status) ==
    IF status = <<>> THEN [kind |-> "return", secs |-> 0]
    ELSE LET line == status[Len(status)]
             toks == split(line)
         IN  IF line = RESPONSE_OK THEN [kind |-> "return", secs |-> 0]
             ELSE IF Len(toks) # 3 THEN [kind |-> "return", secs |-> 0]
             ELSE IF ~is_int(toks[2]) THEN [kind |-> "return", secs |-> 0]
             ELSE IF int(toks[2]) + 1 < 0 THEN [kind |-> "return", secs |-> 0]
             ELSE [kind |-> "sleep", secs |-> int(toks[2]) + 1]

\* as wait_throttle_outcome, deciding on the first line of the response
wait_throttle_outcome_first(status) ==
    IF status = <<>> THEN [kind |-> "return", secs |-> 0]
    ELSE LET line == status[1]
             toks == split(line)
         IN  IF line = RESPONSE_OK THEN [kind |-> "return", secs |-> 0]
             ELSE IF Len(toks) # 3 THEN [kind |-> "ValueError", secs |-> 0]
             ELSE IF ~is_int(toks[2]) THEN [kind |-> "ValueError", secs |-> 0]
             ELSE IF int(toks[2]) + 1 < 0 THEN [kind |-> "ValueError", secs |-> 0]
             ELSE [kind |-> "sleep", secs |-> int(toks[2]) + 1]

\* as wait_throttle_outcome, accepting the words WAIT and SEC only
wait_throttle_outcome_strict(status) ==
    IF status = <<>> THEN [kind |-> "return", secs |-> 0]
    ELSE LET line == status[Len(status)]
             toks == split(line)
         IN  IF line = RESPONSE_OK THEN [kind |-> "return", secs |-> 0]
             ELSE IF Len(toks) # 3 THEN [kind |-> "ValueError", secs |-> 0]
             ELSE IF toks[1] # <<"W","A","I","T">> \/ toks[3] # <<"S","E","C">>
                  THEN [kind |-> "ValueError", secs |-> 0]
             ELSE IF ~is_int(toks[2]) THEN [kind |-> "ValueError", secs |-> 0]
             ELSE IF int(toks[2]) + 1 < 0 THEN [kind |-> "ValueError", secs |-> 0]
             ELSE [kind |-> "sleep", secs |-> int(toks[2]) + 1]

\* _wait_throttle, after request_status() returned response: return at once,
\* sleep, or raise
wait_throttle_outcome(status) ==
    IF status = <<>> THEN [kind |-> "return", secs |-> 0]
    ELSE LET line == status[Len(status)]
             toks == split(line)
         IN  IF line = RESPONSE_OK THEN [kind |-> "return", secs |-> 0]
             ELSE IF Len(toks) # 3 THEN [kind |-> "ValueError", secs |-> 0]
             ELSE IF ~is_int(toks[2]) THEN [kind |-> "ValueError", secs |-> 0]
             ELSE IF int(toks[2]) + 1 < 0 THEN [kind |-> "ValueError", secs |-> 0]
             ELSE [kind |-> "sleep", secs |-> int(toks[2]) + 1]

---------------------------------------------------------------------------
(* Values *)

NoResult == [kind |-> "none", line |-> <<>>, list |-> <<>>, error |-> "none"]

ListResult(l) == [kind |-> "list", line |-> <<>>, list |-> l, error |-> "none"]

LineResult(l) == [kind |-> "line", line |-> l, list |-> <<>>, error |-> "none"]

ErrorResult(e) == [kind |-> "error", line |-> <<>>, list |-> <<>>, error |-> e]

\* a bool returned, written as Python prints it
BoolResult(b) ==
    [kind |-> "bool",
     line |-> IF b THEN <<"T","r","u","e">> ELSE <<"F","a","l","s","e">>,
     list |-> <<>>, error |-> "none"]

Event(type, data, secs) == [type |-> type, data |-> data, secs |-> secs]

OpenEvent == Event("open", <<>>, 0)

WriteEvent(bytes) == Event("write", bytes, 0)

ReadEvent(bytes) == Event("read", bytes, 0)

SleepEvent(secs) == Event("sleep", <<>>, secs)

NoOp == [name |-> "none", packet_id |-> 0, data |-> <<>>, was_open |-> FALSE]

\* the innermost active request() frame
top == stack[Len(stack)]

---------------------------------------------------------------------------
(* Inputs *)

\* raw lines the device may emit
DeviceLines == {
    <<"O","K","\r","\n">>,
    <<"W","A","I","T"," ","1"," ","S","E","C","\r","\n">>,
    <<" ","W","A","I","T"," ","0"," ","S","E","C","\r","\n">>,
    <<"W","A","I","T"," ","X"," ","S","E","C","\r","\n">>,
    <<"E","R","R","O","R","\r","\n">>,
    <<"\r","\n">> }

\* arguments of send: a short payload, one of exactly DATA_SIZE characters,
\* a longer one
SendArgs == {
    <<1, <<"h","e","l","l","o">> >>,
    <<9, <<"0","1","2","3","4","5","6","7","8","9","a","b">> >>,
    <<10, <<"0","1","2","3","4","5","6","7","8","9","a","b","c">> >> }

PackAlphabet == {"a", " "}

\* every string over PackAlphabet of at most MaxDataLen characters
PackInputs == UNION {[1..n -> PackAlphabet] : n \in 0..MaxDataLen}

---------------------------------------------------------------------------
(* Initial state: the driver constructed, no operation called yet.         *)
(* serial.Serial(port=...) opens the port at construction when a port is   *)
(* given and leaves it closed when port is None.                           *)

Init ==
    /\ is_open \in BOOLEAN
    /\ handle_throttling \in BOOLEAN
    /\ rx = <<>>
    /\ emitted = 0
    /\ pc = "idle"
    /\ op = NoOp
    /\ stack = <<>>
    /\ lines = <<>>
    /\ response = <<>>
    /\ result = NoResult
    /\ warning = "none"
    /\ log = <<>>

---------------------------------------------------------------------------
(* Public operations: the call *)

\* a public operation calls self.request(command, throttle)
request(name, packet_id, data, command, throttle) ==
    /\ pc = "idle"
    /\ op' = [name |-> name, packet_id |-> packet_id, data |-> data,
              was_open |-> is_open]
    /\ stack' = <<[command |-> command, throttle |-> throttle]>>
    /\ pc' = "request"
    /\ log' = <<>>
    /\ emitted' = Len(rx)
    /\ lines' = <<>>
    /\ response' = <<>>
    /\ result' = NoResult
    /\ UNCHANGED <<is_open, handle_throttling, rx>>

request_attention ==
    /\ request("request_attention", 0, <<>>, COMMAND_AT, FALSE)
    /\ warning' = "none"

request_diagnostics ==
    /\ request("request_diagnostics", 0, <<>>, COMMAND_AT_DIAGNOSTICS, FALSE)
    /\ warning' = "none"

request_id ==
    /\ request("request_id", 0, <<>>, COMMAND_AT_ID, FALSE)
    /\ warning' = "none"

request_status ==
    /\ request("request_status", 0, <<>>, COMMAND_AT_STATUS, FALSE)
    /\ warning' = "none"

\* as request_version, asking request() to throttle
request_version_throttled ==
    /\ request("request_version", 0, <<>>, COMMAND_AT_VERSION, TRUE)
    /\ warning' = "none"

request_version ==
    /\ request("request_version", 0, <<>>, COMMAND_AT_VERSION, FALSE)
    /\ warning' = "none"

\* as send, formatting the data given and not the packed data
send_unpacked(packet_id, data) ==
    /\ request("send", packet_id, data, COMMAND_AT_SEND(packet_id, data), TRUE)
    /\ warning' = warning_message(data, pack_data(data))

send(packet_id, data) ==
    /\ request("send", packet_id, data,
               COMMAND_AT_SEND(packet_id, pack_data(data)), TRUE)
    /\ warning' = warning_message(data, pack_data(data))

send_call == \E a \in SendArgs : send(a[1], a[2])

\* the id property: response = self.request_id()
id ==
    /\ request("id", 0, <<>>, COMMAND_AT_ID, FALSE)
    /\ warning' = "none"

turn_on_leds ==
    /\ request("turn_on_leds", 0, <<>>, COMMAND_AT_LEDS(STATE_LEDS_ON), FALSE)
    /\ warning' = "none"

turn_off_leds ==
    /\ request("turn_off_leds", 0, <<>>, COMMAND_AT_LEDS(STATE_LEDS_OFF), FALSE)
    /\ warning' = "none"

\* the connected property: self._serial.is_open
connected == is_open

\* as connect, calling open() without asking whether the port is open
connect_reopen ==
    /\ pc = "idle"
    /\ op' = [name |-> "connect", packet_id |-> 0, data |-> <<>>,
              was_open |-> connected]
    /\ is_open' = TRUE
    /\ log' = <<OpenEvent>>
    /\ warning' = "none"
    /\ result' = BoolResult(is_open')
    /\ emitted' = Len(rx)
    /\ lines' = <<>>
    /\ response' = <<>>
    /\ UNCHANGED <<handle_throttling, rx, pc, stack>>

\* connect: open the port unless it is open (then warn), return connected
connect ==
    /\ pc = "idle"
    /\ op' = [name |-> "connect", packet_id |-> 0, data |-> <<>>,
              was_open |-> connected]
    /\ IF connected
       THEN /\ warning' = "already_connected"
            /\ log' = <<>>
            /\ UNCHANGED is_open
       ELSE /\ is_open' = TRUE
            /\ log' = <<OpenEvent>>
            /\ warning' = "none"
    /\ result' = BoolResult(is_open')
    /\ emitted' = Len(rx)
    /\ lines' = <<>>
    /\ response' = <<>>
    /\ UNCHANGED <<handle_throttling, rx, pc, stack>>

---------------------------------------------------------------------------
(* request(): its steps *)

\* as request_connect, opening the port without asking whether it is open
request_connect_always ==
    /\ pc = "request"
    /\ is_open' = TRUE
    /\ log' = Append(log, OpenEvent)
    /\ pc' = "throttle"
    /\ UNCHANGED <<handle_throttling, rx, emitted, op, stack, lines,
                   response, result, warning>>

\* request: if not self.connected: self.connect()  (connect opens the port)
request_connect ==
    /\ pc = "request"
    /\ IF ~is_open
       THEN is_open' = TRUE /\ log' = Append(log, OpenEvent)
       ELSE UNCHANGED <<is_open, log>>
    /\ pc' = "throttle"
    /\ UNCHANGED <<handle_throttling, rx, emitted, op, stack, lines,
                   response, result, warning>>

\* request: if throttle and self.handle_throttling: self._wait_throttle(),
\* which begins with request_status(), a request() with throttle=False
request_throttle ==
    /\ pc = "throttle"
    /\ IF top.throttle /\ handle_throttling
       THEN /\ stack' = Append(stack, [command |-> COMMAND_AT_STATUS,
                                       throttle |-> FALSE])
            /\ pc' = "request"
       ELSE /\ pc' = "write"
            /\ UNCHANGED stack
    /\ UNCHANGED <<is_open, handle_throttling, rx, emitted, op, lines,
                   response, result, warning, log>>

\* as request_write, discarding the pending input before writing
request_write_flushing ==
    /\ pc = "write"
    /\ rx' = <<>>
    /\ log' = Append(log, WriteEvent(encode_command(top.command)))
    /\ lines' = <<>>
    /\ pc' = "readline"
    /\ UNCHANGED <<is_open, handle_throttling, emitted, op, stack,
                   response, result, warning>>

\* request: self._serial.write(encode_command(command)); _readlines begins
request_write ==
    /\ pc = "write"
    /\ log' = Append(log, WriteEvent(encode_command(top.command)))
    /\ lines' = <<>>
    /\ pc' = "readline"
    /\ UNCHANGED <<is_open, handle_throttling, rx, emitted, op, stack,
                   response, result, warning>>

\* as readlines, giving up after two lines
readlines_capped ==
    /\ pc = "readline"
    /\ LET line_bytes == IF rx = <<>> THEN <<>> ELSE Head(rx)
           line == strip(line_bytes)
       IN  /\ rx' = IF rx = <<>> THEN rx ELSE Tail(rx)
           /\ log' = Append(log, ReadEvent(line_bytes))
           /\ IF line # <<>>
              THEN /\ lines' = Append(lines, line)
                   /\ pc' = IF Len(lines) < 1 THEN "readline" ELSE "return"
              ELSE lines' = lines /\ pc' = "return"
    /\ UNCHANGED <<is_open, handle_throttling, emitted, op, stack,
                   response, result, warning>>

\* _readlines: one turn of the loop
readlines ==
    /\ pc = "readline"
    /\ LET line_bytes == IF rx = <<>> THEN <<>> ELSE Head(rx)
           line == strip(line_bytes)
       IN  /\ rx' = IF rx = <<>> THEN rx ELSE Tail(rx)
           /\ log' = Append(log, ReadEvent(line_bytes))
           /\ IF line # <<>>
              THEN lines' = Append(lines, line) /\ pc' = "readline"
              ELSE lines' = lines /\ pc' = "return"
    /\ UNCHANGED <<is_open, handle_throttling, emitted, op, stack,
                   response, result, warning>>

\* request: return response, to _wait_throttle or to the public operation
request_return ==
    /\ pc = "return"
    /\ response' = lines
    /\ lines' = <<>>
    /\ stack' = SubSeq(stack, 1, Len(stack) - 1)
    /\ pc' = IF Len(stack) > 1 THEN "wait_throttle" ELSE "finish"
    /\ UNCHANGED <<is_open, handle_throttling, rx, emitted, op, result,
                   warning, log>>

\* as wait_throttle, asking the status again after the sleep
wait_throttle_retry ==
    /\ pc = "wait_throttle"
    /\ LET outcome == wait_throttle_outcome(response) IN
       CASE outcome.kind = "return" ->
              /\ pc' = "write"
              /\ UNCHANGED <<stack, result, log>>
         [] outcome.kind = "sleep" ->
              /\ log' = Append(log, SleepEvent(outcome.secs))
              /\ stack' = Append(stack, [command |-> COMMAND_AT_STATUS,
                                          throttle |-> FALSE])
              /\ pc' = "write"
              /\ UNCHANGED result
         [] OTHER ->
              /\ result' = ErrorResult(outcome.kind)
              /\ stack' = <<>>
              /\ pc' = "idle"
              /\ UNCHANGED log
    /\ UNCHANGED <<is_open, handle_throttling, rx, emitted, op, lines,
                   response, warning>>

\* _wait_throttle, from the status response on
wait_throttle ==
    /\ pc = "wait_throttle"
    /\ LET outcome == wait_throttle_outcome(response) IN
       CASE outcome.kind = "return" ->
              /\ pc' = "write"
              /\ UNCHANGED <<stack, result, log>>
         [] outcome.kind = "sleep" ->
              /\ log' = Append(log, SleepEvent(outcome.secs))
              /\ pc' = "write"
              /\ UNCHANGED <<stack, result>>
         [] OTHER ->
              /\ result' = ErrorResult(outcome.kind)
              /\ stack' = <<>>
              /\ pc' = "idle"
              /\ UNCHANGED log
    /\ UNCHANGED <<is_open, handle_throttling, rx, emitted, op, lines,
                   response, warning>>

---------------------------------------------------------------------------
(* Public operations: the return *)

\* request_attention .. request_version: return self.request(...)
return_response ==
    /\ pc = "finish"
    /\ op.name \in {"request_attention", "request_diagnostics", "request_id",
                    "request_status", "request_version"}
    /\ result' = ListResult(response)
    /\ pc' = "idle"
    /\ UNCHANGED <<is_open, handle_throttling, rx, emitted, op, stack, lines,
                   response, warning, log>>

\* as return_pop, returning an empty line when there is no line to pop
return_pop_lenient ==
    /\ pc = "finish"
    /\ op.name \in {"send", "turn_on_leds", "turn_off_leds", "id"}
    /\ result' = IF response = <<>> THEN LineResult(<<>>)
                 ELSE LineResult(response[Len(response)])
    /\ pc' = "idle"
    /\ UNCHANGED <<is_open, handle_throttling, rx, emitted, op, stack, lines,
                   response, warning, log>>

\* send, turn_on_leds, turn_off_leds, id: return response.pop()
return_pop ==
    /\ pc = "finish"
    /\ op.name \in {"send", "turn_on_leds", "turn_off_leds", "id"}
    /\ result' = IF response = <<>> THEN ErrorResult("IndexError")
                 ELSE LineResult(response[Len(response)])
    /\ pc' = "idle"
    /\ UNCHANGED <<is_open, handle_throttling, rx, emitted, op, stack, lines,
                   response, warning, log>>

---------------------------------------------------------------------------
(* Environment *)

\* the device emits one more line
device_emit ==
    /\ emitted < MaxEmit
    /\ \E l \in DeviceLines : rx' = Append(rx, l)
    /\ emitted' = emitted + 1
    /\ UNCHANGED <<is_open, handle_throttling, pc, op, stack, lines,
                   response, result, warning, log>>

---------------------------------------------------------------------------
Next ==
    \/ request_attention
    \/ request_diagnostics
    \/ request_id
    \/ request_status
    \/ request_version
    \/ send_call
    \/ turn_on_leds
    \/ turn_off_leds
    \/ id
    \/ connect
    \/ request_connect
    \/ request_throttle
    \/ request_write
    \/ readlines
    \/ request_return
    \/ wait_throttle
    \/ return_response
    \/ return_pop
    \/ device_emit

Spec == Init /\ [][Next]_vars

---------------------------------------------------------------------------
(* _pack_data on its own, over every input of PackInputs *)

InitPack ==
    /\ is_open = TRUE
    /\ handle_throttling = TRUE
    /\ rx = <<>>
    /\ emitted = 0
    /\ pc = "pack"
    /\ op \in {[name |-> "_pack_data", packet_id |-> 0, data |-> d,
                was_open |-> TRUE] : d \in PackInputs}
    /\ stack = <<>>
    /\ lines = <<>>
    /\ response = <<>>
    /\ result = NoResult
    /\ warning = "none"
    /\ log = <<>>

\* _pack_data(data): the packed data returned, the warning chosen
pack ==
    /\ pc = "pack"
    /\ result' = LineResult(pack_data(op.data))
    /\ warning' = warning_message(op.data, pack_data(op.data))
    /\ pc' = "packed"
    /\ UNCHANGED <<is_open, handle_throttling, rx, emitted, op, stack, lines,
                   response, log>>

NextPack == pack

SpecPack == InitPack /\ [][NextPack]_vars

---------------------------------------------------------------------------
(* _parse_diagnostics and _parse_version on their own.  A dict is the      *)
(* sequence of its <<key, value>> items in insertion order.                *)

MaxParseLines == 3

\* response lines given to the parsers
ParseLines == {
    <<"A","=","1">>,
    <<"A","=","2">>,
    <<"B","=","1","=","2">>,
    <<"=">>,
    <<"S">> }

ParseInputs == UNION {[1..n -> ParseLines] : n \in 0..MaxParseLines}

RECURSIVE find_eq(_)
\* position of the first "=" of s, 0 when there is none
find_eq(s) == IF s = <<>> THEN 0
              ELSE IF Head(s) = "=" THEN 1
              ELSE IF find_eq(Tail(s)) = 0 THEN 0
              ELSE 1 + find_eq(Tail(s))

\* line.split('=', 1)
split_eq(line) ==
    IF find_eq(line) = 0 THEN <<line>>
    ELSE <<SubSeq(line, 1, find_eq(line) - 1),
           SubSeq(line, find_eq(line) + 1, Len(line))>>

\* response[key] = value
dict_set(d, key, value) ==
    IF \E n \in DOMAIN d : d[n][1] = key
    THEN [n \in DOMAIN d |-> IF d[n][1] = key THEN <<key, value>> ELSE d[n]]
    ELSE Append(d, <<key, value>>)

RECURSIVE parse_lines(_, _)
\* the loop of both parsers: key, value = line.split('=', 1);
\* response[key] = value.  The unpacking raises on a line without "=".
parse_lines(ls, d) ==
    IF ls = <<>> THEN [kind |-> "dict", line |-> <<>>, list |-> d, error |-> "none"]
    ELSE IF Len(split_eq(Head(ls))) # 2 THEN ErrorResult("ValueError")
    ELSE parse_lines(Tail(ls),
                     dict_set(d, split_eq(Head(ls))[1], split_eq(Head(ls))[2]))

\* _parse_diagnostics(diagnostics)
parse_diagnostics(diagnostics) == parse_lines(diagnostics, <<>>)

\* as parse_version, parsing the first line too
parse_version_all(version) == parse_lines(version, <<>>)

\* _parse_version(version): version[1:] is parsed
parse_version(version) == parse_lines(SubSeq(version, 2, Len(version)), <<>>)

InitParse ==
    /\ is_open = TRUE
    /\ handle_throttling = TRUE
    /\ rx = <<>>
    /\ emitted = 0
    /\ pc = "parse"
    /\ op = NoOp
    /\ stack = <<>>
    /\ lines = <<>>
    /\ response \in ParseInputs
    /\ result = NoResult
    /\ warning = "none"
    /\ log = <<>>

\* self._parse_diagnostics(response)
call_parse_diagnostics ==
    /\ pc = "parse"
    /\ op' = [NoOp EXCEPT !.name = "_parse_diagnostics"]
    /\ result' = parse_diagnostics(response)
    /\ pc' = "parsed"
    /\ UNCHANGED <<is_open, handle_throttling, rx, emitted, stack, lines,
                   response, warning, log>>

\* self._parse_version(response)
call_parse_version ==
    /\ pc = "parse"
    /\ op' = [NoOp EXCEPT !.name = "_parse_version"]
    /\ result' = parse_version(response)
    /\ pc' = "parsed"
    /\ UNCHANGED <<is_open, handle_throttling, rx, emitted, stack, lines,
                   response, warning, log>>

NextParse ==
    \/ call_parse_diagnostics
    \/ call_parse_version

SpecParse == InitParse /\ [][NextParse]_vars

---------------------------------------------------------------------------
(* send with throttle handling enabled, against a device whose status      *)
(* lines have three tokens with other words, negative or large numbers     *)

\* raw lines of that device
ThrottleLines == {
    <<"O","K","\r","\n">>,
    <<"A"," ","2"," ","B","\r","\n">>,
    <<"W","A","I","T"," ","-","1"," ","S","E","C","\r","\n">>,
    <<"W","A","I","T"," ","-","2"," ","S","E","C","\r","\n">>,
    <<"T"," ","8","6","4","0","0"," ","U","\r","\n">> }

InitThrottle == Init /\ handle_throttling

\* the device emits one more line, of ThrottleLines
throttle_emit ==
    /\ emitted < MaxEmit
    /\ \E l \in ThrottleLines : rx' = Append(rx, l)
    /\ emitted' = emitted + 1
    /\ UNCHANGED <<is_open, handle_throttling, pc, op, stack, lines,
                   response, result, warning, log>>

NextThrottle ==
    \/ send_call
    \/ request_connect
    \/ request_throttle
    \/ request_write
    \/ readlines
    \/ request_return
    \/ wait_throttle
    \/ return_pop
    \/ throttle_emit

SpecThrottle == InitThrottle /\ [][NextThrottle]_vars

---------------------------------------------------------------------------
(* The driver as a running program: one thread, which takes its next step  *)
(* whenever it has one (readline returns within the transport's timeout,   *)
(* time.sleep returns).  The caller is free to call or not.                *)

\* the steps of an operation once called
driver_step ==
    \/ request_connect
    \/ request_throttle
    \/ request_write
    \/ readlines
    \/ request_return
    \/ wait_throttle
    \/ return_response
    \/ return_pop

\* raw lines of the device: one that throttles, one that ends a response
TermLines == {
    <<"W","A","I","T"," ","1"," ","S","E","C","\r","\n">>,
    <<"\r","\n">> }

\* the device emits one more line, of TermLines
term_emit ==
    /\ emitted < MaxEmit
    /\ \E l \in TermLines : rx' = Append(rx, l)
    /\ emitted' = emitted + 1
    /\ UNCHANGED <<is_open, handle_throttling, pc, op, stack, lines,
                   response, result, warning, log>>

NextTerm ==
    \/ request_status
    \/ send_call
    \/ driver_step
    \/ term_emit

SpecTerm == Init /\ [][NextTerm]_vars /\ WF_vars(driver_step)

---------------------------------------------------------------------------
(* Reading the log *)

Count(type) == Cardinality({i \in DOMAIN log : log[i].type = type})

CountOf(event) == Cardinality({i \in DOMAIN log : log[i] = event})

\* every character of s is whitespace (s is empty after trimming)
AllSpace(s) == \A i \in DOMAIN s : s[i] \in {" ", "\t", "\r", "\n"}

\* t is s without its leading and trailing whitespace
TrimOf(s, t) ==
    /\ t # <<>>
    /\ t[1] \notin {" ", "\t", "\r", "\n"}
    /\ t[Len(t)] \notin {" ", "\t", "\r", "\n"}
    /\ \E a \in 0..Len(s) :
          /\ a + Len(t) <= Len(s)
          /\ SubSeq(s, a + 1, a + Len(t)) = t
          /\ AllSpace(SubSeq(s, 1, a))
          /\ AllSpace(SubSeq(s, a + Len(t) + 1, Len(s)))

StatusBytes == <<"A","T","+","S","T","A","T","U","S","?","\r","\n">>

\* "WAIT n SEC"
WaitLine(n) == <<"W","A","I","T"," ">> \o str(n) \o <<" ","S","E","C">>

\* the bytes send(packet_id, data) must write, for each argument of SendArgs
SendBytes(packet_id, data) ==
    CASE packet_id = 1 ->
           <<"A","T","+","S","E","N","D","=","1",",",
             "h","e","l","l","o"," "," "," "," "," "," "," ","\r","\n">>
      [] packet_id = 9 ->
           <<"A","T","+","S","E","N","D","=","9",",",
             "0","1","2","3","4","5","6","7","8","9","a","b","\r","\n">>
      [] packet_id = 10 ->
           <<"A","T","+","S","E","N","D","=","1","0",",",
             "0","1","2","3","4","5","6","7","8","9","a","b","\r","\n">>

\* a throttled send in progress or finished
ThrottledSend == op.name = "send" /\ handle_throttling

\* position in the log of the status query of a throttled send
StatusWriteAt == CHOOSE i \in DOMAIN log : log[i] = WriteEvent(StatusBytes)

\* position of the read that ended the status response
StatusEndAt ==
    CHOOSE k \in DOMAIN log :
        /\ k > StatusWriteAt
        /\ log[k].type = "read" /\ AllSpace(log[k].data)
        /\ \A j \in (StatusWriteAt + 1)..(k - 1) :
              log[j].type = "read" /\ ~AllSpace(log[j].data)

\* the status response of a throttled send has been collected and
\* _wait_throttle has acted on it
ThrottleChecked ==
    /\ ThrottledSend
    /\ CountOf(WriteEvent(StatusBytes)) > 0
    /\ \E k \in DOMAIN log :
          /\ k > StatusWriteAt
          /\ log[k].type = "read" /\ AllSpace(log[k].data)
    /\ pc # "wait_throttle"
    /\ ~(pc = "return" /\ Len(stack) = 2)

StatusEmpty == StatusEndAt = StatusWriteAt + 1

\* last line of a non-empty status response, as the transport yielded it
StatusLastRaw == log[StatusEndAt - 1].data

---------------------------------------------------------------------------
(* C1: in a send with throttle handling enabled, an empty status response  *)
(* or one whose last line is "OK" causes no sleep; a last line             *)
(* "WAIT N SEC" causes exactly one sleep, of N+1, which comes right after  *)
(* the read that ended the status response and before the AT+SEND write.   *)
C1_ThrottleSleep ==
    ThrottleChecked =>
       /\ (StatusEmpty \/ TrimOf(StatusLastRaw, RESPONSE_OK)) =>
             Count("sleep") = 0
       /\ \A n \in 0..9 :
             (~StatusEmpty /\ TrimOf(StatusLastRaw, WaitLine(n))) =>
                /\ Count("sleep") = 1
                /\ log[StatusEndAt + 1] = SleepEvent(n + 1)
                /\ \A j \in DOMAIN log :
                      log[j] = WriteEvent(SendBytes(op.packet_id, op.data))
                         => j = StatusEndAt + 2

C1_Witness ==
    /\ ThrottleChecked
    /\ pc = "idle"
    /\ result.kind = "line"
    /\ ~StatusEmpty
    /\ TrimOf(StatusLastRaw, WaitLine(1))
    /\ log[StatusEndAt + 1] = SleepEvent(2)
    /\ log[StatusEndAt + 2] = WriteEvent(SendBytes(op.packet_id, op.data))

(* C2: an operation started on a closed transport calls open() exactly     *)
(* once, before its first write or read; one started on an open transport  *)
(* never calls open(); no write or read happens on a closed transport.     *)
C2_LazyConnect ==
    /\ Count("open") <= 1
    /\ op.was_open => Count("open") = 0
    /\ (op.name # "none" /\ ~op.was_open /\ ~(pc = "request" /\ Len(stack) = 1))
          => Count("open") = 1
    /\ \A i \in DOMAIN log :
          log[i].type \in {"write", "read"} =>
             /\ is_open
             /\ op.was_open \/ \E j \in 1..(i - 1) : log[j].type = "open"

C2_Witness ==
    /\ ThrottledSend
    /\ pc = "idle"
    /\ ~op.was_open
    /\ log[1] = OpenEvent
    /\ Count("open") = 1
    /\ Count("write") = 2

\* position of the last write in the log
LastWriteAt == CHOOSE i \in DOMAIN log :
                  log[i].type = "write"
                  /\ \A j \in DOMAIN log : log[j].type = "write" => j <= i

\* a request() has just returned its response
Returned == pc \in {"wait_throttle", "finish"}

(* C3: the response a request returns is the lines read after its write,   *)
(* trimmed, in order, up to and excluding the first line that is empty     *)
(* after trimming; that terminator is the last line the request reads.     *)
C3_ResponseCollection ==
    Returned =>
       LET w == LastWriteAt
           n == Len(log) - w
       IN  /\ n >= 1
           /\ \A k \in 1..n : log[w + k].type = "read"
           /\ AllSpace(log[w + n].data)
           /\ Len(response) = n - 1
           /\ \A k \in 1..(n - 1) : TrimOf(log[w + k].data, response[k])

C3_Witness ==
    /\ Returned
    /\ response = <<WaitLine(0)>>
    /\ log[Len(log) - 1].data = <<" ">> \o WaitLine(0) \o <<"\r", "\n">>
    /\ log[Len(log)].data = <<"\r", "\n">>
    /\ rx # <<>>

\* the operation has returned or raised
Finished == pc = "idle" /\ op.name # "none"

(* C4: with throttle handling disabled, send writes one command only, the  *)
(* bytes "AT+SEND={packet_id},{packed data}\r\n", never sleeps, and        *)
(* returns the last line of the response it collected.                     *)
C4_SendUnthrottled ==
    (op.name = "send" /\ ~handle_throttling) =>
       /\ Count("sleep") = 0
       /\ Count("write") <= 1
       /\ Len(stack) <= 1
       /\ \A i \in DOMAIN log :
             log[i].type = "write" =>
                log[i] = WriteEvent(SendBytes(op.packet_id, op.data))
       /\ pc \in {"readline", "return", "finish", "idle"} => Count("write") = 1
       /\ (Finished /\ response # <<>>) =>
             /\ result = LineResult(response[Len(response)])
             /\ TrimOf(log[Len(log) - 1].data, result.line)

C4_Witness ==
    /\ op.name = "send" /\ ~handle_throttling
    /\ op.packet_id = 1
    /\ Finished
    /\ Len(response) = 2
    /\ result = LineResult(RESPONSE_OK)
    /\ Count("write") = 1

\* the bytes each operation other than send must write
OwnBytes(name) ==
    CASE name = "request_attention" -> <<"A","T","\r","\n">>
      [] name = "request_diagnostics" ->
           <<"A","T","+","D","I","A","G","N","O","S","T","I","C","S","?","\r","\n">>
      [] name = "request_id" -> <<"A","T","+","I","D","?","\r","\n">>
      [] name = "request_status" -> StatusBytes
      [] name = "request_version" ->
           <<"A","T","+","V","E","R","S","I","O","N","?","\r","\n">>
      [] name = "turn_on_leds" -> <<"A","T","+","L","E","D","S","=","O","N","\r","\n">>
      [] name = "turn_off_leds" ->
           <<"A","T","+","L","E","D","S","=","O","F","F","\r","\n">>

Unthrottled == {"request_attention", "request_diagnostics", "request_id",
                "request_status", "request_version", "turn_on_leds",
                "turn_off_leds"}

(* C5: every operation other than send writes one command only, its own,   *)
(* and neither queries the status on its own account nor sleeps, whether   *)
(* throttle handling is enabled or not; so an AT+STATUS? write the caller  *)
(* did not ask for occurs in send only.                                    *)
C5_OnlySendThrottled ==
    /\ op.name \in Unthrottled =>
          /\ Count("sleep") = 0
          /\ Count("write") <= 1
          /\ Len(stack) <= 1
          /\ pc # "wait_throttle"
          /\ \A i \in DOMAIN log :
                log[i].type = "write" => log[i] = WriteEvent(OwnBytes(op.name))
          /\ pc \in {"readline", "return", "finish", "idle"} => Count("write") = 1
    /\ \A i \in DOMAIN log :
          log[i] = WriteEvent(StatusBytes) => op.name \in {"request_status", "send"}

C5_Witness ==
    /\ handle_throttling
    /\ op.name = "turn_on_leds"
    /\ Finished
    /\ result.kind = "line"
    /\ Count("write") = 1
    /\ \E i \in DOMAIN log : TrimOf(log[i].data, WaitLine(1))

(* C6: one send makes at most one status query, which is itself not        *)
(* throttled, sleeps at most once and writes AT+SEND at most once; after   *)
(* a sleep the next transport call is the AT+SEND write, and no status     *)
(* query follows it.                                                       *)
C6_ThrottleOneShot ==
    op.name = "send" =>
       /\ CountOf(WriteEvent(StatusBytes)) <= 1
       /\ Count("sleep") <= 1
       /\ CountOf(WriteEvent(SendBytes(op.packet_id, op.data))) <= 1
       /\ Count("write") <= 2
       /\ Len(stack) <= 2
       /\ Len(stack) = 2 => ~top.throttle
       /\ \A i \in DOMAIN log :
             log[i].type = "sleep" =>
                /\ i < Len(log) =>
                      log[i + 1] = WriteEvent(SendBytes(op.packet_id, op.data))
                /\ i = Len(log) => pc = "write" /\ Len(stack) = 1
                /\ \A j \in (i + 1)..Len(log) : log[j] # WriteEvent(StatusBytes)

\* a send that slept, then wrote AT+SEND and read a second "WAIT 1 SEC"
C6_Witness ==
    /\ ThrottledSend
    /\ Finished
    /\ Count("sleep") = 1
    /\ Count("write") = 2
    /\ result = LineResult(WaitLine(1))

\* the last line of the status response is neither "OK" nor three tokens
\* with an integer in the middle
StatusViolation ==
    /\ ~StatusEmpty
    /\ ~TrimOf(StatusLastRaw, RESPONSE_OK)
    /\ ~(/\ Len(split(StatusLastRaw)) = 3
         /\ is_int(split(StatusLastRaw)[2]))

(* C7: when the status response is not empty and its last line is neither  *)
(* "OK" nor three whitespace-separated tokens with an integer in the       *)
(* middle, send raises; it has not slept, does not write AT+SEND and does  *)
(* not query the status again.                                             *)
C7_ThrottleViolation ==
    (ThrottleChecked /\ StatusViolation) =>
       /\ Finished
       /\ result.kind = "error"
       /\ Count("sleep") = 0
       /\ Count("write") = 1
       /\ log[Len(log)].type = "read"
       /\ stack = <<>>

C7_Witness ==
    /\ ThrottleChecked
    /\ StatusViolation
    /\ result = ErrorResult("ValueError")
    /\ StatusLastRaw = <<"E","R","R","O","R","\r","\n">>
    /\ StatusEndAt = StatusWriteAt + 3

---------------------------------------------------------------------------
(* _pack_data, under SpecPack *)

Packed == pc = "packed"

(* C8: the packed data has exactly 12 characters: the characters of data   *)
(* in their places, as far as there are any among the first 12, and spaces *)
(* in the places after them; a data of 12 characters is returned as is.    *)
C8_PackLength ==
    Packed =>
       /\ Len(result.line) = 12
       /\ \A i \in 1..12 :
             result.line[i] = IF i <= Len(op.data) THEN op.data[i] ELSE " "
       /\ Len(op.data) = 12 => result.line = op.data

C8_Witness ==
    /\ Packed
    /\ Len(op.data) = 13
    /\ op.data[12] = "a" /\ op.data[13] = " " /\ op.data[1] = " "
    /\ result.line = SubSeq(op.data, 1, 12)

\* C9 as stated: every input shorter than 12 characters is what trimming
\* its packed form gives
C9_TrimRecoversAll ==
    (Packed /\ Len(op.data) < 12) => strip(result.line) = op.data

(* C9, amended: an input shorter than 12 characters that neither begins    *)
(* nor ends with whitespace is what trimming its packed form gives.        *)
C9_TrimRecovers ==
    (/\ Packed
     /\ Len(op.data) < 12
     /\ op.data # <<>> => ~IsSpace(op.data[1]) /\ ~IsSpace(op.data[Len(op.data)]))
       => strip(result.line) = op.data

C9_Witness ==
    /\ Packed
    /\ op.data = <<"a", " ", "a">>
    /\ result.line = <<"a"," ","a"," "," "," "," "," "," "," "," "," ">>
    /\ strip(result.line) = op.data

(* C10: the packed data equals data exactly when data has 12 characters;   *)
(* when they differ their lengths differ, so the warning is never the      *)
(* "forced" one: it is the "padded" one exactly when data is shorter than  *)
(* 12, the "truncated" one exactly when longer, and there is none exactly  *)
(* when data has 12 characters.                                            *)
C10_PackIdentity ==
    Packed =>
       /\ (result.line = op.data) <=> (Len(op.data) = 12)
       /\ result.line # op.data => Len(result.line) # Len(op.data)
       /\ warning # "forced"
       /\ (warning = "padded") <=> (Len(op.data) < 12)
       /\ (warning = "truncated") <=> (Len(op.data) > 12)
       /\ (warning = "none") <=> (Len(op.data) = 12)

C10_Witness ==
    /\ Packed
    /\ Len(op.data) = 12
    /\ op.data[12] = " " /\ op.data[1] = "a"
    /\ warning = "none"
    /\ result.line = op.data

---------------------------------------------------------------------------
\* the operations that return response.pop()
PopOps == {"send", "turn_on_leds", "turn_off_leds", "id"}

\* the bytes of the operation's own command
CommandBytes ==
    IF op.name = "send" THEN SendBytes(op.packet_id, op.data)
    ELSE IF op.name = "id" THEN <<"A","T","+","I","D","?","\r","\n">>
    ELSE OwnBytes(op.name)

\* the operation wrote its own command and collected an empty response:
\* the one read after the write is the terminator
EmptyResponse ==
    /\ Len(log) >= 2
    /\ log[Len(log) - 1] = WriteEvent(CommandBytes)
    /\ log[Len(log)].type = "read"
    /\ pc \in {"finish", "idle"}

(* C11: send, turn_on_leds, turn_off_leds and id raise the empty-sequence  *)
(* error when the response collected is empty; the command has been        *)
(* written by then, once, and nothing is written or read after the read    *)
(* that ended the empty response.                                          *)
C11_EmptyResponsePop ==
    (op.name \in PopOps /\ EmptyResponse) =>
       /\ response = <<>>
       /\ AllSpace(log[Len(log)].data)
       /\ CountOf(WriteEvent(CommandBytes)) = 1
       /\ pc = "idle" => result = ErrorResult("IndexError")
       /\ stack = <<>>

C11_Witness ==
    /\ op.name = "id"
    /\ EmptyResponse
    /\ pc = "idle"
    /\ result = ErrorResult("IndexError")
    /\ log[Len(log)] = ReadEvent(<<"\r", "\n">>)
    /\ rx # <<>>

---------------------------------------------------------------------------
(* _parse_diagnostics and _parse_version, under SpecParse *)

Parsed == pc = "parsed"

HasEq(l) == \E i \in DOMAIN l : l[i] = "="

FirstEq(l) == CHOOSE i \in DOMAIN l :
                 l[i] = "=" /\ \A j \in 1..(i - 1) : l[j] # "="

KeyOf(l) == SubSeq(l, 1, FirstEq(l) - 1)

ValueOf(l) == SubSeq(l, FirstEq(l) + 1, Len(l))

\* the places of the response lines the parser called reads
ParsedPlaces == IF op.name = "_parse_version" THEN 2..Len(response)
                ELSE 1..Len(response)

\* the last of the places read whose line has this key
LastPlaceOf(key) ==
    CHOOSE i \in ParsedPlaces :
       /\ KeyOf(response[i]) = key
       /\ \A j \in ParsedPlaces : KeyOf(response[j]) = key => j <= i

(* C12: the version record is made from every line but the first, the      *)
(* diagnostics record from every line; a line gives the key before its     *)
(* first "=" and the value after it, further "=" staying in the value;     *)
(* a key has one entry, holding the value of the last line with that key.  *)
(* (A line read that has no "=" makes the parser raise.)                   *)
C12_RecordParsing ==
    Parsed =>
       IF \A i \in ParsedPlaces : HasEq(response[i])
       THEN /\ result.kind = "dict"
            /\ {result.list[n][1] : n \in DOMAIN result.list}
                  = {KeyOf(response[i]) : i \in ParsedPlaces}
            /\ \A m, n \in DOMAIN result.list :
                  result.list[m][1] = result.list[n][1] => m = n
            /\ \A n \in DOMAIN result.list :
                  result.list[n][2] = ValueOf(response[LastPlaceOf(result.list[n][1])])
       ELSE result = ErrorResult("ValueError")

\* a version response whose first line has the form KEY=VALUE and whose
\* other lines repeat a key
C12_Witness ==
    /\ Parsed
    /\ op.name = "_parse_version"
    /\ response = << <<"B","=","1","=","2">>, <<"A","=","1">>, <<"A","=","2">> >>
    /\ result.kind = "dict"
    /\ result.list = << <<<<"A">>, <<"2">>>> >>

---------------------------------------------------------------------------
\* the status response of a throttled send has two lines or more
StatusManyLines == StatusEndAt >= StatusWriteAt + 3

(* C13: of a status response of several lines only the last decides: when  *)
(* it is "OK" the send neither sleeps nor raises, whatever the earlier     *)
(* lines are; when it is "WAIT N SEC" the send sleeps once, N+1, whatever  *)
(* the earlier lines are.                                                  *)
C13_LastLineDecides ==
    (ThrottleChecked /\ StatusManyLines) =>
       /\ TrimOf(StatusLastRaw, RESPONSE_OK) =>
             /\ Count("sleep") = 0
             /\ result.error # "ValueError"
             /\ Len(log) > StatusEndAt =>
                   log[StatusEndAt + 1] = WriteEvent(SendBytes(op.packet_id, op.data))
       /\ \A n \in 0..9 :
             TrimOf(StatusLastRaw, WaitLine(n)) =>
                /\ Count("sleep") = 1
                /\ log[StatusEndAt + 1] = SleepEvent(n + 1)
                /\ result.error # "ValueError"

\* "WAIT 1 SEC" then "OK": no sleep, and AT+SEND written
C13_Witness ==
    /\ ThrottleChecked
    /\ StatusManyLines
    /\ TrimOf(log[StatusEndAt - 2].data, WaitLine(1))
    /\ TrimOf(StatusLastRaw, RESPONSE_OK)
    /\ Count("sleep") = 0
    /\ Finished
    /\ Count("write") = 2

---------------------------------------------------------------------------
(* Status lines of three tokens, under SpecThrottle *)

\* the text of an integer
IntText(n) == IF n < 0 THEN <<"-">> \o str(0 - n) ELSE str(n)

\* the integers the lines of ThrottleLines name
StatusIntegers == {-2, -1, 2, 86400}

\* the last status line is three tokens, the middle one the integer n
StatusThreeTokens(n) ==
    /\ ~StatusEmpty
    /\ ~TrimOf(StatusLastRaw, RESPONSE_OK)
    /\ Len(split(StatusLastRaw)) = 3
    /\ split(StatusLastRaw)[2] = IntText(n)

\* the send slept n + 1 after the status response, and AT+SEND is what it
\* does next
SleptThenSends(n) ==
    /\ Count("sleep") = 1
    /\ log[StatusEndAt + 1] = SleepEvent(n + 1)
    /\ result.error # "ValueError"
    /\ IF Len(log) = StatusEndAt + 1
       THEN pc = "write" /\ Len(stack) = 1
       ELSE log[StatusEndAt + 2] = WriteEvent(SendBytes(op.packet_id, op.data))

\* C14 as stated: any integer in the middle, whatever its sign
C14_AnyIntegerSleeps ==
    \A n \in StatusIntegers :
       (ThrottleChecked /\ StatusThreeTokens(n)) => SleptThenSends(n)

(* C14, amended: when the last status line is not "OK" and is three        *)
(* whitespace-separated tokens whose middle one is an integer N >= -1, the *)
(* send sleeps N+1 and then writes AT+SEND, whatever the first and third   *)
(* tokens are and however large N is among the values modelled.            *)
C14_IntegerSleeps ==
    \A n \in StatusIntegers :
       (ThrottleChecked /\ StatusThreeTokens(n) /\ n >= -1) => SleptThenSends(n)

\* "A 2 B": slept 3, then sent
C14_Witness ==
    /\ ThrottleChecked
    /\ Finished
    /\ result.kind = "line"
    /\ StatusThreeTokens(2)
    /\ split(StatusLastRaw)[1] = <<"A">>
    /\ log[StatusEndAt + 1] = SleepEvent(3)
    /\ log[StatusEndAt + 2] = WriteEvent(SendBytes(op.packet_id, op.data))

---------------------------------------------------------------------------
(* Termination, under SpecTerm *)

\* this step is a readline() of the collection loop
ReadStep == pc = "readline" /\ log' # log

(* C15: the collection loop goes on after every line that is not empty     *)
(* after trimming, however many it has read, and ends at the first line    *)
(* that is; so an operation called returns (or raises) once the transport  *)
(* yields such a line after each of its writes, which a device that falls  *)
(* silent does by the read timeout, and only then.                         *)
C15_ReturnsIffTerminator ==
    /\ [][ReadStep =>
             ((pc' = "readline") <=> ~AllSpace(log'[Len(log')].data))]_vars
    /\ [][(pc = "readline" /\ pc' # "readline") =>
             (log' # log /\ AllSpace(log'[Len(log')].data))]_vars
    /\ (pc # "idle") ~> (pc = "idle")

\* three lines read and the loop still reading
C15_Witness ==
    /\ pc = "readline"
    /\ Len(lines) = 3
    /\ log[Len(log)].type = "read"
    /\ ~AllSpace(log[Len(log)].data)

---------------------------------------------------------------------------
(* connect *)

\* this step is a call of connect
ConnectStep == pc = "idle" /\ pc' = "idle" /\ rx' = rx /\ op'.name = "connect"

\* the calls of open() logged after this step
OpensAfter == Cardinality({i \in DOMAIN log' : log'[i].type = "open"})

(* C16: connect on an open transport calls open() not at all and leaves    *)
(* the transport as it was; on a closed transport it calls open() exactly  *)
(* once; either way it returns the open state the transport has after the  *)
(* call.                                                                   *)
C16_ConnectIdempotent ==
    [][ConnectStep =>
         /\ is_open => (OpensAfter = 0 /\ UNCHANGED <<is_open, rx>>)
         /\ ~is_open => OpensAfter = 1
         /\ op'.was_open = is_open
         /\ result' = BoolResult(is_open')]_vars

\* connect has returned from a call on an open transport
C16_Witness ==
    /\ Finished
    /\ op.name = "connect"
    /\ op.was_open
    /\ log = <<>>
    /\ result = BoolResult(TRUE)

---------------------------------------------------------------------------
(* Writes and terminators *)

\* the reads of the operation that consumed a terminator: a line empty
\* after trimming, or the nothing of a read timeout
TerminatorReads ==
    {i \in DOMAIN log : log[i].type = "read" /\ AllSpace(log[i].data)}

\* the last write or read before event i, 0 when there is none
PrevIO(i) ==
    LET before == {j \in 1..(i - 1) : log[j].type \in {"write", "read"}}
    IN  IF before = {} THEN 0
        ELSE CHOOSE j \in before : \A k \in before : k <= j

\* writes and reads alternate: a read follows a write or a read of a line
\* that is not a terminator, a write follows nothing or a terminator
Alternation ==
    \A i \in DOMAIN log :
        /\ log[i].type = "read" =>
              /\ PrevIO(i) # 0
              /\ \/ log[PrevIO(i)].type = "write"
                 \/ PrevIO(i) \notin TerminatorReads
        /\ log[i].type = "write" =>
              (PrevIO(i) = 0 \/ PrevIO(i) \in TerminatorReads)

\* the pending input changes only by the device adding a line at its end
\* or by a readline() taking the line at its front, which is logged and,
\* unless it is a terminator, collected trimmed
PendingKept ==
    rx' # rx =>
        \/ /\ Len(rx') = Len(rx) + 1
           /\ SubSeq(rx', 1, Len(rx)) = rx
        \/ /\ pc = "readline"
           /\ rx # <<>>
           /\ rx' = Tail(rx)
           /\ log' = Append(log, ReadEvent(Head(rx)))
           /\ lines' = IF AllSpace(Head(rx)) THEN lines
                       ELSE Append(lines, strip(Head(rx)))

(* C17: within every operation the writes and the terminators consumed     *)
(* keep step: their numbers are equal whenever the driver is not inside    *)
(* the collection loop (so after every operation, returned or raised) and  *)
(* the writes are one ahead inside it; no read comes before the first      *)
(* write, each write is followed by reads up to one terminator before the  *)
(* next write; and pending input is never discarded, it is only ever read, *)
(* in order, into the response of the command written last.                *)
C17_WritesMatchTerminators ==
    /\ [](Count("write") = Cardinality(TerminatorReads)
                              + (IF pc = "readline" THEN 1 ELSE 0))
    /\ []Alternation
    /\ [][PendingKept]_vars

\* a send has returned after two writes and two terminators, and input
\* the device sent after the last terminator is still pending
C17_Witness ==
    /\ Finished
    /\ op.name = "send"
    /\ result.kind = "line"
    /\ Count("write") = 2
    /\ Cardinality(TerminatorReads) = 2
    /\ rx # <<>>

====
